---- MODULE Spec2Model ----
(***************************************************************************)
(* A model of the motionplan package's planner core:                       *)
(*   - planner.getSolutions   (IK candidate search, one solver goroutine)  *)
(*   - planner.smoothPath     (randomised shortcutting)                    *)
(*   - motionPlanInternal     (multi-goal orchestration)                   *)
(* Each routine has its own specification (Spec, SpecSmooth, SpecPlan);    *)
(* the variables of the routines a specification does not run stay at      *)
(* their idle values.                                                      *)
(***************************************************************************)
EXTENDS Integers, Sequences, FiniteSets, TLC

(***************************************************************************)
(* Bounds of the model.                                                    *)
(***************************************************************************)
\* number of candidates the solver may offer during one getSolutions call
MaxEmit == 3
\* constraint scores of passing candidates range over 1..MaxCost
MaxCost == 3

\* The score a failed first check carries; the code reads cScore only
\* under cPass, so one value stands for all of them.
InfScore == MaxCost + 1
Costs == 1 .. MaxCost

\* planOpts.MinScore values tried (0 disables the early exit)
MinScores == {0, 2}
\* planOpts.MaxSolutions values tried (0 selects the default)
MaxSolutionsSet == {0, 1, 2}
\* defaultSolutionsToSeed: the constant lives in the options file of the
\* package; its value is scaled down to the size of the model.
defaultSolutionsToSeed == 3

\* number of nodes of the longest path handed to smoothPath
MaxPathLen == 5
\* the same where the verdict on every edge is tracked (SpecSmoothAudit)
MaxAuditPathLen == 4
\* largest planOpts.SmoothIter tried
MaxSmoothIter == 2

\* number of goals of the longest list handed to motionPlanInternal
MaxGoals == 3
\* number of motion configs of the longest list handed to it
MaxConfigs == 3
\* number of configurations the longest single-waypoint plan returns
MaxSlices == 2
\* degrees of freedom of the largest solver frame
MaxDoF == 1
\* checkInputs: the configurations are 0 .. MaxInput
MaxInput == 2
Inputs == 0 .. MaxInput
\* checkInputs: the poses a forward transform can give
Poses == {"poseA", "poseB"}

\* names a constraint check can report as the failed constraint
ConstraintNames == {"collision", "linear"}

VARIABLES
    \* ---- planner options (planOpts) ----
    MinScore,           \* mp.planOpts.MinScore
    MaxSolutions,       \* mp.planOpts.MaxSolutions
    \* ---- getSolutions: the calling goroutine ----
    gsPc,               \* position of getSolutions
    nSolutions,         \* local nSolutions
    solutions,          \* local map[float64][]frame.Input (cost -> step)
    failures,           \* local map[string]int
    constraintFailCnt,  \* local int
    cancelCalled,       \* the deferred cancel() of ctxWithCancel has run
    gsRet,              \* what getSolutions returned: [sols, err]
    \* ---- the caller's context ----
    ctxDone,            \* ctx.Done() is closed
    \* ---- channels ----
    ikErrBuf,           \* buffered values of ikErr (capacity 1)
    ikErrClosed,        \* close(ikErr) has run
    offer,              \* the step a blocked send on solutionGen holds, 0 if none
    \* ---- the solver goroutine ----
    solver,             \* position of the goroutine running mp.solver.Solve
    solveVal,           \* value Solve returned
    \* ---- history (not read by the code) ----
    emitted,            \* number of sends started on solutionGen
    processed,          \* number of candidates received from solutionGen
    lowSeen,            \* a received candidate was scored below MinScore
    lowAccepted,        \* ... and it passed both checks, with MinScore > 0
    accepted,           \* per cost: the candidates that passed both checks, their number and the last one
    inOrder,            \* every candidate received so far was the next one offered
    processedAfterCancel, \* candidates received after ctx was canceled
    lastChecks,         \* the CheckConstraints calls made for the last candidate received
    seedTransform,      \* how mp.frame.Transform(seed) ended: "ok", "failed", "unset" before
    ikErrSends,         \* sends on ikErr that completed
    withdrawn,          \* sends on solutionGen that Solve gave up
    cancelAt,           \* gsPc at the moment ctx was canceled ("none" before)
    launches,           \* number of solver goroutines started
    \* ---- smoothPath ----
    smPc,               \* position of smoothPath
    optsNil,            \* mp.planOpts == nil
    SmoothIter,         \* mp.planOpts.SmoothIter
    path,               \* the local `path` (sequence of node configurations)
    smI,                \* the loop counter i
    smRet,              \* the path smoothPath returned
    pathOK,             \* verdicts of CheckConstraintPath, per pair of configurations
    \* ---- history of smoothPath (not read by the code) ----
    smInput,            \* the path smoothPath was given
    cpCalls,            \* number of checkPath evaluations
    randDraws,          \* number of randseed.Intn draws
    smAccepted,         \* number of accepted shortcuts
    origin,             \* per node of path: its index in the input path, 0 for a waypoint
    lastDraw,           \* the last iteration's two edge indices and the verdict of checkPath
    auditEdges,         \* the verdicts on all edges of the path are tracked
    \* ---- motionPlanInternal ----
    mpPc,               \* position of motionPlanInternal
    goals,              \* len(goals)
    motionConfigs,      \* the motionConfigs argument (sequence of configs)
    frameInFS,          \* fs.Frame(f.Name()) != nil
    tracebackOK,        \* fs.TracebackFrame succeeds
    worldStateNil,      \* worldState == nil
    opts,               \* the local opts
    mpI,                \* the loop index i (from 0)
    steps,              \* the local steps
    seedMap,            \* the seedMap parameter, reassigned in the loop
    mpRet,              \* what motionPlanInternal returned: [steps, err]
    \* ---- history of motionPlanInternal (not read by the code) ----
    usedOpts,           \* the config handed to PlanSingleWaypoint, per call
    usedSeeds,          \* the seedMap handed to newSolverFrame, per call
    planManagers,       \* number of newPlanManager calls
    lastDoF,            \* len(sf.DoF()) of the last solver frame built, -1 before
    resultLens          \* len(resultSlices) of every PlanSingleWaypoint that returned

\* checkInputs
VARIABLES
    ciPc,               \* position of the checkInputs call
    frameTransform,     \* mp.frame.Transform: the pose of each configuration, or its failure
    ciInputs,           \* the argument inputs
    ciPosition,         \* the local position
    ciRet,              \* the value returned
    ccCalls             \* the CheckConstraints calls made: the input handed over, the verdict given

gsVars == <<MinScore, MaxSolutions, gsPc, nSolutions, solutions, failures,
            constraintFailCnt, cancelCalled, gsRet, ctxDone, ikErrBuf,
            ikErrClosed, offer, solver, solveVal, emitted, processed,
            lowSeen, lowAccepted, accepted, inOrder, processedAfterCancel, lastChecks,
            seedTransform, ikErrSends, withdrawn, cancelAt, launches>>

smVars == <<smPc, optsNil, SmoothIter, path, smI, smRet, pathOK, smInput,
            cpCalls, randDraws, smAccepted, origin, lastDraw, auditEdges>>

mpVars == <<mpPc, goals, motionConfigs, frameInFS, tracebackOK, worldStateNil,
            opts, mpI, steps, seedMap, mpRet, usedOpts, usedSeeds, planManagers,
            lastDoF, resultLens>>

ciVars == <<ciPc, frameTransform, ciInputs, ciPosition, ciRet, ccCalls>>

vars == <<gsVars, smVars, mpVars, ciVars>>

(***************************************************************************)
(* Values                                                                  *)
(***************************************************************************)
EmptyMap == << >>

NoErr == [kind |-> "nil", failures |-> EmptyMap, cnt |-> 0]
TransformErr == [kind |-> "transform", failures |-> EmptyMap, cnt |-> 0]
\* ctx.Err() of a canceled context
CtxErr == [kind |-> "canceled", failures |-> EmptyMap, cnt |-> 0]
\* errIKSolve
errIKSolve == [kind |-> "noIKSolution", failures |-> EmptyMap, cnt |-> 0]
\* genIKConstraintErr(failures, constraintFailCnt)
genIKConstraintErr(f, n) == [kind |-> "constraint", failures |-> f, cnt |-> n]

NotReturned == [sols |-> << >>, err |-> [kind |-> "pending", failures |-> EmptyMap, cnt |-> 0]]

\* m[k] = v on a Go map
MapPut_KeepFirst(m, k, v) ==
    IF k \in DOMAIN m THEN m ELSE [x \in (DOMAIN m) \cup {k} |-> IF x = k THEN v ELSE m[x]]

MapPut(m, k, v) == [x \in (DOMAIN m) \cup {k} |-> IF x = k THEN v ELSE m[x]]
\* m[k]++ on a map[string]int (a missing key reads as 0)
MapInc_SetToOne(m, k) == MapPut(m, k, 1)

MapInc(m, k) == MapPut(m, k, (IF k \in DOMAIN m THEN m[k] ELSE 0) + 1)

\* newCostNode(solutions[key], key)
newCostNode(q, cost) == [q |-> q, cost |-> cost]

(***************************************************************************)
(* sort.Float64s: ascending order, computed by insertion.                  *)
(***************************************************************************)
RECURSIVE InsertSorted(_, _)
InsertSorted(s, x) ==
    IF s = << >> THEN <<x>>
    ELSE IF x <= Head(s) THEN <<x>> \o s
    ELSE <<Head(s)>> \o InsertSorted(Tail(s), x)

\* sort.Float64s left out: the keys stay in range order
SortFloat64s_Unsorted(keys) == keys

RECURSIVE SortFloat64s(_)
SortFloat64s(keys) ==
    IF keys = << >> THEN << >>
    ELSE InsertSorted(SortFloat64s(Tail(keys)), Head(keys))

\* the orders in which `for k := range solutions` may deliver the keys
RangeOrders(S) ==
    {s \in [1 .. Cardinality(S) -> S] : \A i, j \in DOMAIN s : i # j => s[i] # s[j]}

\* lines 432-442: keys collected in range order, sorted, wrapped in costNodes
OrderedSolutions(sols, keys) ==
    LET sorted == SortFloat64s(keys)
    IN  [i \in DOMAIN sorted |-> newCostNode(sols[sorted[i]], sorted[i])]

(***************************************************************************)
(* The derived context: canceled by its own cancel() or with its parent.   *)
(***************************************************************************)
\* line 340: make(chan error, 1)
ikErrCap_Unbuffered == 1 - 1

ikErrCap == 1

ctxWithCancelDone_ParentOnly == ctxDone

ctxWithCancelDone == ctxDone \/ cancelCalled

(***************************************************************************)
(* getSolutions, lines 326-443                                             *)
(***************************************************************************)
\* lines 328-331
NSolutions_NoDefault(maxSol) == maxSol

NSolutions(maxSol) == IF maxSol = 0 THEN defaultSolutionsToSeed ELSE maxSol

\* line 362: `case <-ctx.Done()` is ready
CtxDonePolled_Never == FALSE

CtxDonePolled == ctxDone

\* a receive on ikErr can complete: a value is buffered, or the channel is
\* closed (lines 341 and 415)
IkErrReady_Always == TRUE

IkErrReady == ikErrBuf # << >> \/ ikErrClosed

\* line 389
MinScoreHit_Never(cScore) == FALSE

MinScoreHit(cScore) == cScore < MinScore /\ MinScore > 0

\* line 397
Sufficient_OffByOne(sols) == Cardinality(DOMAIN sols) > nSolutions

Sufficient(sols) == Cardinality(DOMAIN sols) >= nSolutions

\* What the two CheckConstraints calls of lines 369-386 can report for one
\* step.  The second call is made only when the first passed.
CheckOutcomes ==
    {[cPass |-> TRUE, cScore |-> c, failName |-> "", endPass |-> TRUE, endFailName |-> ""] :
        c \in Costs}
    \cup
    {[cPass |-> TRUE, cScore |-> c, failName |-> "", endPass |-> FALSE, endFailName |-> n] :
        c \in Costs, n \in ConstraintNames}
    \cup
    {[cPass |-> FALSE, cScore |-> InfScore, failName |-> n, endPass |-> FALSE, endFailName |-> ""] :
        n \in ConstraintNames}

\* lines 369-375: the input of the first check (the literal gives the fields
\* in order: the two poses, then the two configurations)
FirstCheckInput(step) ==
    [StartPos |-> "seedPos", EndPos |-> "goalPos", StartInput |-> "seed", EndInput |-> step]

\* lines 380-386: the input of the check of the end state
EndCheckInput(step) ==
    [StartPos |-> "goalPos", EndPos |-> "goalPos", StartInput |-> step, EndInput |-> step]

\* lines 369-386: the checks made for one candidate, with what each answered
ChecksMade(step, out) ==
    IF out.cPass
    THEN <<[in |-> FirstCheckInput(step), ok |-> TRUE, failName |-> out.failName],
           [in |-> EndCheckInput(step), ok |-> out.endPass, failName |-> out.endFailName]>>
    ELSE <<[in |-> FirstCheckInput(step), ok |-> FALSE, failName |-> out.failName]>>

\* lines 369-410: the body of `case step := <-solutionGen`; brk is `break IK`
StepResult_NoEndCheck(step, out) ==
    IF out.cPass
    THEN IF MinScoreHit(out.cScore)
         THEN [sols |-> MapPut(EmptyMap, out.cScore, step), fails |-> failures,
               cnt |-> constraintFailCnt, brk |-> TRUE]
         ELSE LET s == MapPut(solutions, out.cScore, step)
              IN  [sols |-> s, fails |-> failures, cnt |-> constraintFailCnt,
                   brk |-> Sufficient(s)]
    ELSE [sols |-> solutions, fails |-> MapInc(failures, out.failName),
          cnt |-> constraintFailCnt + 1, brk |-> FALSE]

StepResult_KeepCollected(step, out) ==
    IF out.cPass
    THEN IF out.endPass
         THEN LET s == MapPut(solutions, out.cScore, step)
              IN  [sols |-> s, fails |-> failures, cnt |-> constraintFailCnt,
                   brk |-> MinScoreHit(out.cScore) \/ Sufficient(s)]
         ELSE [sols |-> solutions, fails |-> MapInc(failures, out.endFailName),
               cnt |-> constraintFailCnt + 1, brk |-> FALSE]
    ELSE [sols |-> solutions, fails |-> MapInc(failures, out.failName),
          cnt |-> constraintFailCnt + 1, brk |-> FALSE]

StepResult(step, out) ==
    IF out.cPass
    THEN IF out.endPass
         THEN IF MinScoreHit(out.cScore)
              THEN [sols |-> MapPut(EmptyMap, out.cScore, step), fails |-> failures,
                    cnt |-> constraintFailCnt, brk |-> TRUE]
              ELSE LET s == MapPut(solutions, out.cScore, step)
                   IN  [sols |-> s, fails |-> failures, cnt |-> constraintFailCnt,
                        brk |-> Sufficient(s)]
         ELSE [sols |-> solutions, fails |-> MapInc(failures, out.endFailName),
               cnt |-> constraintFailCnt + 1, brk |-> FALSE]
    ELSE [sols |-> solutions, fails |-> MapInc(failures, out.failName),
          cnt |-> constraintFailCnt + 1, brk |-> FALSE]

\* lines 422-442: the value returned once the loop has ended
LoopResult_NoHistogram(sols, fails, cnt, keys) ==
    IF Cardinality(DOMAIN sols) = 0
    THEN [sols |-> << >>, err |-> errIKSolve]
    ELSE [sols |-> OrderedSolutions(sols, keys), err |-> NoErr]

LoopResult_SolverErr(sols, fails, cnt, keys) ==
    IF solveVal = "err"
    THEN [sols |-> << >>, err |-> [kind |-> "solver", failures |-> EmptyMap, cnt |-> 0]]
    ELSE IF Cardinality(DOMAIN sols) = 0
         THEN IF cnt = 0
              THEN [sols |-> << >>, err |-> errIKSolve]
              ELSE [sols |-> << >>, err |-> genIKConstraintErr(fails, cnt)]
         ELSE [sols |-> OrderedSolutions(sols, keys), err |-> NoErr]

LoopResult(sols, fails, cnt, keys) ==
    IF Cardinality(DOMAIN sols) = 0
    THEN IF cnt = 0
         THEN [sols |-> << >>, err |-> errIKSolve]
         ELSE [sols |-> << >>, err |-> genIKConstraintErr(fails, cnt)]
    ELSE [sols |-> OrderedSolutions(sols, keys), err |-> NoErr]

OptVars == <<MinScore, MaxSolutions>>
ChanVars == <<ikErrBuf, ikErrClosed, offer>>
SolverVars == <<solver, solveVal, emitted>>
LocalVars == <<nSolutions, solutions, failures, constraintFailCnt>>
LoopHist == <<processed, lowSeen, lowAccepted, accepted, inOrder, processedAfterCancel,
              lastChecks>>
TaskHist == <<ikErrSends, withdrawn>>
HistVars == <<LoopHist, TaskHist, seedTransform>>

\* line 409 (continue IK) and the breaks: where the loop goes after a candidate
AfterStep_FallThrough(brk) == IF brk THEN "post" ELSE "pollErr"

AfterStep_SkipCtx(brk) == IF brk THEN "post" ELSE "pollGen"

AfterStep(brk) == IF brk THEN "post" ELSE "pollCtx"

\* lines 328-336: nSolutions, then the forward transform of the seed, which
\* may fail; on failure the error is returned before anything is created
AfterTransform_LaunchAnyway(ok) == "launch"

\* lines 333-336: the call goes on, or returns the error
AfterTransform(ok) == IF ok THEN "launch" ELSE "done"

GS_Transform ==
    /\ gsPc = "start"
    /\ nSolutions' = NSolutions(MaxSolutions)
    /\ \E ok \in BOOLEAN :
         /\ seedTransform' = IF ok THEN "ok" ELSE "failed"
         /\ gsPc' = AfterTransform(ok)
         /\ gsRet' = IF ok THEN gsRet ELSE [sols |-> << >>, err |-> TransformErr]
    /\ UNCHANGED <<OptVars, ChanVars, SolverVars, solutions, failures,
                   constraintFailCnt, cancelCalled, ctxDone, LoopHist, TaskHist,
                   cancelAt, launches>>
    /\ UNCHANGED <<smVars, mpVars, ciVars>>

\* lines 339-356: channels, deferred receive, derived context, deferred
\* cancel, the solver goroutine, the empty maps
GS_Launch ==
    /\ gsPc = "launch"
    /\ gsPc' = "pollCtx"
    /\ solver' = "running"
    /\ launches' = launches + 1
    /\ solutions' = EmptyMap
    /\ failures' = EmptyMap
    /\ constraintFailCnt' = 0
    /\ UNCHANGED <<OptVars, ChanVars, solveVal, emitted, nSolutions,
                   cancelCalled, gsRet, ctxDone, HistVars, cancelAt>>
    /\ UNCHANGED <<smVars, mpVars, ciVars>>

\* lines 361-365: the first select of an iteration
GS_PollCtx ==
    /\ gsPc = "pollCtx"
    /\ IF CtxDonePolled
       THEN /\ gsRet' = [sols |-> << >>, err |-> CtxErr]
            /\ gsPc' = "deferCancel"
       ELSE /\ gsRet' = gsRet
            /\ gsPc' = "pollGen"
    /\ UNCHANGED <<OptVars, ChanVars, SolverVars, LocalVars, cancelCalled,
                   ctxDone, HistVars, cancelAt, launches>>
    /\ UNCHANGED <<smVars, mpVars, ciVars>>

\* lines 367-412: the second select.  A receive on the unbuffered
\* solutionGen completes only when a send is blocked on it.
GS_PollGen ==
    /\ gsPc = "pollGen"
    /\ IF solver = "offering"
       THEN \E out \in CheckOutcomes :
              LET r == StepResult(offer, out)
              IN  /\ solutions' = r.sols
                  /\ failures' = r.fails
                  /\ constraintFailCnt' = r.cnt
                  /\ gsPc' = AfterStep(r.brk)
                  /\ processed' = processed + 1
                  /\ lowSeen' = (lowSeen \/ out.cScore < MinScore)
                  /\ lowAccepted' = (lowAccepted \/
                        (out.cPass /\ out.endPass /\ MinScore > 0 /\ out.cScore < MinScore))
                  /\ accepted' =
                        IF out.cPass /\ out.endPass
                        THEN [accepted EXCEPT ![out.cScore] =
                                 [n |-> @.n + 1, last |-> offer]]
                        ELSE accepted
                  /\ inOrder' = (inOrder /\ offer = processed + 1)
                  /\ processedAfterCancel' =
                        IF ctxDone THEN processedAfterCancel + 1 ELSE processedAfterCancel
                  /\ lastChecks' = ChecksMade(offer, out)
                  /\ solver' = "running"
                  /\ offer' = 0
       ELSE /\ gsPc' = "pollErr"
            /\ UNCHANGED <<solutions, failures, constraintFailCnt, LoopHist, solver, offer>>
    /\ UNCHANGED <<OptVars, ikErrBuf, ikErrClosed, solveVal, emitted, nSolutions,
                   cancelCalled, gsRet, ctxDone, cancelAt, launches, TaskHist, seedTransform>>
    /\ UNCHANGED <<smVars, mpVars, ciVars>>

\* lines 414-420: the third select
GS_PollErr ==
    /\ gsPc = "pollErr"
    /\ IF IkErrReady
       THEN /\ ikErrBuf' = << >>
            /\ gsPc' = "post"
       ELSE /\ ikErrBuf' = ikErrBuf
            /\ gsPc' = "pollCtx"
    /\ UNCHANGED <<OptVars, ikErrClosed, offer, SolverVars, LocalVars,
                   cancelCalled, gsRet, ctxDone, HistVars, cancelAt, launches>>
    /\ UNCHANGED <<smVars, mpVars, ciVars>>

\* lines 422-442
GS_Post ==
    /\ gsPc = "post"
    /\ \E keys \in RangeOrders(DOMAIN solutions) :
         gsRet' = LoopResult(solutions, failures, constraintFailCnt, keys)
    /\ gsPc' = "deferCancel"
    /\ UNCHANGED <<OptVars, ChanVars, SolverVars, LocalVars, cancelCalled,
                   ctxDone, HistVars, cancelAt, launches>>
    /\ UNCHANGED <<smVars, mpVars, ciVars>>

\* line 344: the deferred cancel() runs first (last deferred, first run)
GS_DeferCancel ==
    /\ gsPc = "deferCancel"
    /\ cancelCalled' = TRUE
    /\ gsPc' = "deferWait"
    /\ UNCHANGED <<OptVars, ChanVars, SolverVars, LocalVars, gsRet, ctxDone,
                   HistVars, cancelAt, launches>>
    /\ UNCHANGED <<smVars, mpVars, ciVars>>

\* line 341: the deferred blocking receive `<-ikErr`, then the return
GS_DeferWait ==
    /\ gsPc = "deferWait"
    /\ IkErrReady
    /\ ikErrBuf' = << >>
    /\ gsPc' = "done"
    /\ UNCHANGED <<OptVars, ikErrClosed, offer, SolverVars, LocalVars,
                   cancelCalled, gsRet, ctxDone, HistVars, cancelAt, launches>>
    /\ UNCHANGED <<smVars, mpVars, ciVars>>

(***************************************************************************)
(* The goroutine of lines 347-350 and the Solve call it runs.  Solve is a  *)
(* capability: it may offer steps, may return at any time, and gives up a  *)
(* blocked send once its context is canceled.                              *)
(***************************************************************************)
\* Solve starts a send on solutionGen
Sol_Offer ==
    /\ solver = "running"
    /\ emitted < MaxEmit
    /\ emitted' = emitted + 1
    /\ offer' = emitted + 1
    /\ solver' = "offering"
    /\ UNCHANGED <<OptVars, ikErrBuf, ikErrClosed, solveVal, LocalVars, gsPc,
                   cancelCalled, gsRet, ctxDone, HistVars, cancelAt, launches>>
    /\ UNCHANGED <<smVars, mpVars, ciVars>>

\* Solve returns (exhausted, failed, or told to stop)
Sol_Return ==
    /\ solver = "running"
    /\ \E v \in {"nil", "err"} : solveVal' = v
    /\ solver' = "returned"
    /\ UNCHANGED <<OptVars, ChanVars, emitted, LocalVars, gsPc, cancelCalled,
                   gsRet, ctxDone, HistVars, cancelAt, launches>>
    /\ UNCHANGED <<smVars, mpVars, ciVars>>

\* Solve, blocked on a send, sees ctxWithCancel done and returns its error
Sol_Abandon ==
    /\ solver = "offering"
    /\ ctxWithCancelDone
    /\ offer' = 0
    /\ solveVal' = "err"
    /\ solver' = "returned"
    /\ withdrawn' = withdrawn + 1
    /\ UNCHANGED <<OptVars, ikErrBuf, ikErrClosed, emitted, LocalVars, gsPc,
                   cancelCalled, gsRet, ctxDone, LoopHist, ikErrSends, seedTransform, cancelAt,
                   launches>>
    /\ UNCHANGED <<smVars, mpVars, ciVars>>

\* line 349: ikErr <- (value of Solve); the buffer of one is free
Sol_Send ==
    /\ solver = "returned"
    /\ Len(ikErrBuf) < ikErrCap
    /\ ikErrBuf' = Append(ikErrBuf, solveVal)
    /\ solver' = "sent"
    /\ ikErrSends' = ikErrSends + 1
    /\ UNCHANGED <<OptVars, ikErrClosed, offer, solveVal, emitted, LocalVars,
                   gsPc, cancelCalled, gsRet, ctxDone, LoopHist, withdrawn, seedTransform,
                   cancelAt, launches>>
    /\ UNCHANGED <<smVars, mpVars, ciVars>>

\* line 348: the deferred close(ikErr)
Sol_Close ==
    /\ solver = "sent"
    /\ ikErrClosed' = TRUE
    /\ solver' = "exited"
    /\ UNCHANGED <<OptVars, ikErrBuf, offer, solveVal, emitted, LocalVars, gsPc,
                   cancelCalled, gsRet, ctxDone, HistVars, cancelAt, launches>>
    /\ UNCHANGED <<smVars, mpVars, ciVars>>

\* the caller cancels ctx while the call is in progress
CtxCancel ==
    /\ ~ctxDone
    /\ gsPc # "done"
    /\ ctxDone' = TRUE
    /\ cancelAt' = gsPc
    /\ UNCHANGED <<OptVars, ChanVars, SolverVars, LocalVars, gsPc, cancelCalled,
                   gsRet, HistVars, launches>>
    /\ UNCHANGED <<smVars, mpVars, ciVars>>

GSInit ==
    /\ MinScore \in MinScores
    /\ MaxSolutions \in MaxSolutionsSet
    /\ gsPc = "start"
    /\ nSolutions = 0
    /\ solutions = EmptyMap
    /\ failures = EmptyMap
    /\ constraintFailCnt = 0
    /\ cancelCalled = FALSE
    /\ gsRet = NotReturned
    /\ ctxDone = FALSE
    /\ ikErrBuf = << >>
    /\ ikErrClosed = FALSE
    /\ offer = 0
    /\ solver = "idle"
    /\ solveVal = "none"
    /\ emitted = 0
    /\ processed = 0
    /\ lowSeen = FALSE
    /\ lowAccepted = FALSE
    /\ accepted = [c \in Costs |-> [n |-> 0, last |-> 0]]
    /\ inOrder = TRUE
    /\ processedAfterCancel = 0
    /\ lastChecks = << >>
    /\ seedTransform = "unset"
    /\ ikErrSends = 0
    /\ withdrawn = 0
    /\ cancelAt = "none"
    /\ launches = 0

GSNext ==
    \/ GS_Transform
    \/ GS_Launch
    \/ GS_PollCtx
    \/ GS_PollGen
    \/ GS_PollErr
    \/ GS_Post
    \/ GS_DeferCancel
    \/ GS_DeferWait
    \/ Sol_Offer
    \/ Sol_Return
    \/ Sol_Abandon
    \/ Sol_Send
    \/ Sol_Close
    \/ CtxCancel

(***************************************************************************)
(* smoothPath, lines 282-321.  A node is its configuration Q(), a point of *)
(* a one-dimensional joint space; the input nodes sit on multiples of      *)
(* Scale so that MaxSmoothIter nested interpolations stay exact.           *)
(***************************************************************************)
RECURSIVE Pow4(_)
Pow4(n) == IF n = 0 THEN 1 ELSE 4 * Pow4(n - 1)

Scale == Pow4(MaxSmoothIter)

\* the input paths tried: a zig-zag 0, 3, 2, 5, 4, ... of the given length
InputPath(len) ==
    [k \in 1 .. len |-> Scale * (IF k % 2 = 1 THEN k - 1 ELSE k + 1)]

\* line 294: waypoints := []float64{0.25, 0.5, 0.75}, in quarters
waypoints == <<1, 2, 3>>

\* frame.InterpolateInputs(from, to, by), `by` given in quarters
InterpolateInputs(from, to, by) == from + ((to - from) * by) \div 4

\* consecutive pairs of a path
Edges(p) == {<<p[k], p[k + 1]>> : k \in 1 .. Len(p) - 1}

\* rand.Intn(n): an int of the half-open interval [0, n); it panics for n <= 0
Intn(n) == 0 .. n - 1

\* line 284
OptsMissing_Ignored == FALSE

OptsMissing == optsNil

\* line 288
TooShort(p) == Len(p) <= 2

\* lines 297-301: the select on ctx.Done() at the top of an iteration
SmCtxDonePolled_Never == FALSE

SmCtxDonePolled == ctxDone

\* lines 312-317, firstEdge and secondEdge as in the code (indices from 0)
Splice_KeepSecondEdge(p, firstEdge, secondEdge, wayPoint1, wayPoint2) ==
    SubSeq(p, 1, firstEdge + 1) \o <<wayPoint1, wayPoint2>>
        \o SubSeq(p, secondEdge + 1, Len(p))

Splice_WithoutWaypoints(p, firstEdge, secondEdge, wayPoint1, wayPoint2) ==
    SubSeq(p, 1, firstEdge + 1) \o SubSeq(p, secondEdge + 2, Len(p))

Splice_SuffixFirst(p, firstEdge, secondEdge, wayPoint1, wayPoint2) ==
    SubSeq(p, secondEdge + 2, Len(p)) \o <<wayPoint1, wayPoint2>>
        \o SubSeq(p, 1, firstEdge + 1)

Splice_OneWaypoint(p, firstEdge, secondEdge, wayPoint1, wayPoint2) ==
    SubSeq(p, 1, firstEdge + 1) \o <<wayPoint1>> \o SubSeq(p, secondEdge + 2, Len(p))

Splice(p, firstEdge, secondEdge, wayPoint1, wayPoint2) ==
    SubSeq(p, 1, firstEdge + 1) \o <<wayPoint1, wayPoint2>>
        \o SubSeq(p, secondEdge + 2, Len(p))

\* checkPath (lines 263-273) hands the two configurations to the constraint
\* capability, a function of them: the verdicts it may give.  pathOK holds
\* the verdicts already fixed.
checkPath_Always(seedInputs, target) == {TRUE}

checkPath(seedInputs, target) ==
    IF <<seedInputs, target>> \in DOMAIN pathOK
    THEN {pathOK[<<seedInputs, target>>]}
    ELSE BOOLEAN

\* pathOK after checkPath(a, b) gave ok and the path became p.  With
\* auditEdges the verdict is kept, and the capability's verdict on every
\* edge of p is fixed as well, including those the code did not ask for.
Audited(a, b, ok, p) ==
    IF ~auditEdges THEN {pathOK}
    ELSE LET new == (Edges(p) \cup {<<a, b>>}) \ DOMAIN pathOK
         IN  {[e \in (DOMAIN pathOK) \cup new |->
                  IF e \in DOMAIN pathOK THEN pathOK[e] ELSE g[e]] :
              g \in {h \in [new -> BOOLEAN] : <<a, b>> \in new => h[<<a, b>>] = ok}}

SM_Enter ==
    /\ smPc = "entry"
    /\ IF OptsMissing \/ TooShort(path)
       THEN /\ smPc' = "done"
            /\ smRet' = path
       ELSE /\ smPc' = "loop"
            /\ smRet' = smRet
    /\ smI' = 0
    /\ UNCHANGED <<optsNil, SmoothIter, path, pathOK, smInput, cpCalls,
                   randDraws, smAccepted, origin, lastDraw, auditEdges, ctxDone>>
    /\ UNCHANGED <<OptVars, gsPc, LocalVars, cancelCalled, gsRet, ChanVars,
                   SolverVars, HistVars, cancelAt, launches, mpVars, ciVars>>

\* lines 296-319: one iteration of the loop
SM_Iterate ==
    /\ smPc = "loop"
    /\ smI < SmoothIter
    /\ IF SmCtxDonePolled
       THEN /\ smPc' = "done"
            /\ smRet' = path
            /\ UNCHANGED <<path, smI, pathOK, cpCalls, randDraws, smAccepted, origin,
                           lastDraw>>
       ELSE \E firstEdge \in Intn(Len(path) - 2) :
            \E r \in Intn((Len(path) - 2) - firstEdge) :
            \E w1, w2 \in {1 + d : d \in Intn(3)} :
              LET secondEdge == firstEdge + 1 + r
                  wayPoint1 == InterpolateInputs(path[firstEdge + 1], path[firstEdge + 2],
                                                 waypoints[w1])
                  wayPoint2 == InterpolateInputs(path[secondEdge + 1], path[secondEdge + 2],
                                                 waypoints[w2])
                  newpath == Splice(path, firstEdge, secondEdge, wayPoint1, wayPoint2)
              IN  \E ok \in checkPath(wayPoint1, wayPoint2) :
                    /\ path' = IF ok THEN newpath ELSE path
                    /\ smAccepted' = IF ok THEN smAccepted + 1 ELSE smAccepted
                    /\ origin' = IF ok THEN Splice(origin, firstEdge, secondEdge, 0, 0)
                                  ELSE origin
                    /\ lastDraw' = [firstEdge |-> firstEdge, secondEdge |-> secondEdge,
                                    ok |-> ok]
                    /\ pathOK' \in Audited(wayPoint1, wayPoint2, ok,
                                          IF ok THEN newpath ELSE path)
                    /\ cpCalls' = cpCalls + 1
                    /\ randDraws' = randDraws + 4
                    /\ smI' = smI + 1
                    /\ UNCHANGED <<smPc, smRet>>
    /\ UNCHANGED <<optsNil, SmoothIter, smInput, auditEdges, ctxDone>>
    /\ UNCHANGED <<OptVars, gsPc, LocalVars, cancelCalled, gsRet, ChanVars,
                   SolverVars, HistVars, cancelAt, launches, mpVars, ciVars>>

\* line 320: the iteration budget is used up
SM_Return ==
    /\ smPc = "loop"
    /\ smI >= SmoothIter
    /\ smPc' = "done"
    /\ smRet' = path
    /\ UNCHANGED <<optsNil, SmoothIter, path, smI, pathOK, smInput, cpCalls,
                   randDraws, smAccepted, origin, lastDraw, auditEdges, ctxDone>>
    /\ UNCHANGED <<OptVars, gsPc, LocalVars, cancelCalled, gsRet, ChanVars,
                   SolverVars, HistVars, cancelAt, launches, mpVars, ciVars>>

\* the caller cancels ctx while smoothPath runs
SM_CtxCancel ==
    /\ smPc \in {"entry", "loop"}
    /\ ~ctxDone
    /\ ctxDone' = TRUE
    /\ UNCHANGED <<smVars, mpVars, ciVars>>
    /\ UNCHANGED <<OptVars, gsPc, LocalVars, cancelCalled, gsRet, ChanVars,
                   SolverVars, HistVars, cancelAt, launches, mpVars, ciVars>>

SMInit ==
    /\ smPc = "entry"
    /\ optsNil \in BOOLEAN
    /\ SmoothIter \in 0 .. MaxSmoothIter
    /\ \E len \in 0 .. MaxPathLen : path = InputPath(len)
    /\ smInput = path
    /\ smI = 0
    /\ smRet = << >>
    /\ pathOK = << >>
    /\ auditEdges = FALSE
    /\ cpCalls = 0
    /\ randDraws = 0
    /\ smAccepted = 0
    /\ origin = [k \in 1 .. Len(path) |-> k]
    /\ lastDraw = << >>

\* one iteration on a path the loop works on, of up to one node more than
\* the paths of SMInit
SMInitSplice ==
    /\ smPc = "entry"
    /\ optsNil = FALSE
    /\ SmoothIter = 1
    /\ \E len \in 3 .. MaxPathLen + 1 : path = InputPath(len)
    /\ smInput = path
    /\ smI = 0
    /\ smRet = << >>
    /\ pathOK = << >>
    /\ auditEdges = FALSE
    /\ cpCalls = 0
    /\ randDraws = 0
    /\ smAccepted = 0
    /\ origin = [k \in 1 .. Len(path) |-> k]
    /\ lastDraw = << >>

\* as SMInit, with the capability's verdict on every edge of the path
\* tracked from the start
SMInitAudit ==
    /\ smPc = "entry"
    /\ optsNil \in BOOLEAN
    /\ SmoothIter \in 0 .. MaxSmoothIter
    /\ \E len \in 0 .. MaxAuditPathLen : path = InputPath(len)
    /\ smInput = path
    /\ smI = 0
    /\ smRet = << >>
    /\ pathOK \in [Edges(path) -> BOOLEAN]
    /\ auditEdges = TRUE
    /\ cpCalls = 0
    /\ randDraws = 0
    /\ smAccepted = 0
    /\ origin = [k \in 1 .. Len(path) |-> k]
    /\ lastDraw = << >>

SMIdle ==
    /\ smPc = "idle"
    /\ optsNil = FALSE
    /\ SmoothIter = 0
    /\ path = << >>
    /\ smInput = << >>
    /\ smI = 0
    /\ smRet = << >>
    /\ pathOK = << >>
    /\ auditEdges = FALSE
    /\ cpCalls = 0
    /\ randDraws = 0
    /\ smAccepted = 0
    /\ origin = [k \in 1 .. Len(path) |-> k]
    /\ lastDraw = << >>

GSIdle ==
    /\ MinScore = 0
    /\ MaxSolutions = 0
    /\ gsPc = "idle"
    /\ nSolutions = 0
    /\ solutions = EmptyMap
    /\ failures = EmptyMap
    /\ constraintFailCnt = 0
    /\ cancelCalled = FALSE
    /\ gsRet = NotReturned
    /\ ctxDone = FALSE
    /\ ikErrBuf = << >>
    /\ ikErrClosed = FALSE
    /\ offer = 0
    /\ solver = "idle"
    /\ solveVal = "none"
    /\ emitted = 0
    /\ processed = 0
    /\ lowSeen = FALSE
    /\ lowAccepted = FALSE
    /\ accepted = [c \in Costs |-> [n |-> 0, last |-> 0]]
    /\ inOrder = TRUE
    /\ processedAfterCancel = 0
    /\ lastChecks = << >>
    /\ seedTransform = "unset"
    /\ ikErrSends = 0
    /\ withdrawn = 0
    /\ cancelAt = "none"
    /\ launches = 0

SMNext ==
    \/ SM_Enter
    \/ SM_Iterate
    \/ SM_Return
    \/ SM_CtxCancel

(***************************************************************************)
(* motionPlanInternal, lines 118-222.  A motion config is a number (0 is   *)
(* the empty config of line 150); a step is the pair of the goal (from 1)  *)
(* and of the position in that goal's plan it comes from.                  *)
(***************************************************************************)
EmptyConfig == 0
CallerSeed == [goal |-> 0, idx |-> 0]

\* lines 143-162: the configs per goal, or the error
SelectOpts_OneIsDefault(nGoals, configs) ==
    IF Len(configs) # nGoals
    THEN IF Len(configs) \in {0, 1}
         THEN [err |-> "nil", opts |-> [k \in 1 .. nGoals |-> EmptyConfig]]
         ELSE [err |-> "goals and motion configs had different lengths", opts |-> << >>]
    ELSE [err |-> "nil", opts |-> configs]

SelectOpts(nGoals, configs) ==
    IF Len(configs) # nGoals
    THEN CASE Len(configs) = 0 ->
                [err |-> "nil", opts |-> [k \in 1 .. nGoals |-> EmptyConfig]]
           [] Len(configs) = 1 ->
                [err |-> "nil", opts |-> [k \in 1 .. nGoals |-> configs[1]]]
           [] OTHER ->
                [err |-> "goals and motion configs had different lengths", opts |-> << >>]
    ELSE [err |-> "nil", opts |-> configs]

\* every failing return hands back nil steps
MpFail_Partial(e) == [steps |-> steps, err |-> e]

MpFail(e) == [steps |-> << >>, err |-> e]

\* lines 134-137: fs.Frame(f.Name()) == nil
FrameMissing_Ignored == FALSE

FrameMissing == ~frameInFS

\* lines 127-162: the checks made before the loop over the goals
MP_Start ==
    /\ mpPc = "start"
    /\ IF goals = 0
       THEN /\ mpRet' = MpFail("no destinations passed to PlanWaypoints")
            /\ mpPc' = "done"
            /\ opts' = opts
       ELSE IF FrameMissing
       THEN /\ mpRet' = MpFail("frame missing")
            /\ mpPc' = "done"
            /\ opts' = opts
       ELSE IF ~tracebackOK
       THEN /\ mpRet' = MpFail("traceback")
            /\ mpPc' = "done"
            /\ opts' = opts
       ELSE LET sel == SelectOpts(goals, motionConfigs)
            IN  IF sel.err # "nil"
                THEN /\ mpRet' = MpFail(sel.err)
                     /\ mpPc' = "done"
                     /\ opts' = opts
                ELSE /\ mpRet' = mpRet
                     /\ mpPc' = "loop"
                     /\ opts' = sel.opts
    /\ mpI' = 0
    /\ steps' = << >>
    /\ UNCHANGED <<goals, motionConfigs, frameInFS, tracebackOK, worldStateNil,
                   seedMap, usedOpts, usedSeeds, planManagers, lastDoF, resultLens>>
    /\ UNCHANGED <<gsVars, smVars, ciVars>>

\* how far the body of the loop gets for one goal (lines 168-208)
GoalOutcomes ==
    {"newSolverFrame", "noDoF", "mapToSlice", "Transform", "WorldStateToProtobuf",
     "newPlanManager", "PlanSingleWaypoint", "planned"}

GoalError(o) ==
    IF o = "noDoF"
    THEN "solver frame has no degrees of freedom, cannot perform inverse kinematics"
    ELSE o

\* line 172: len(sf.DoF()) == 0
DoFCheckFails_Never(dof) == FALSE

DoFCheckFails(dof) == dof = 0

\* line 201 is reached: every earlier step of the body succeeded
BuildsPlanner_BeforeDoFCheck(o) ==
    o \in {"noDoF", "newPlanManager", "PlanSingleWaypoint", "planned"}

BuildsPlanner(o) == o \in {"newPlanManager", "PlanSingleWaypoint", "planned"}

\* lines 209-216: the seed map after the steps of one goal were appended
NextSeed_FirstStep(seed, resultSteps) ==
    IF Len(resultSteps) > 0 THEN resultSteps[1] ELSE seed

NextSeed(seed, resultSteps) ==
    IF Len(resultSteps) > 0 THEN resultSteps[Len(resultSteps)] ELSE seed

\* lines 166-217: the body of the loop for goal i
MP_Goal ==
    /\ mpPc = "loop"
    /\ mpI < goals
    /\ \E o \in GoalOutcomes, dof \in 0 .. MaxDoF, n \in 0 .. MaxSlices :
         /\ o = "WorldStateToProtobuf" => ~worldStateNil
         /\ o # "planned" => n = 0
         /\ o # "newSolverFrame" => (o = "noDoF" <=> DoFCheckFails(dof))
         /\ lastDoF' = IF o = "newSolverFrame" THEN lastDoF ELSE dof
         /\ resultLens' = IF o = "planned" THEN Append(resultLens, n) ELSE resultLens
         /\ usedSeeds' = Append(usedSeeds, seedMap)
         /\ planManagers' =
              IF BuildsPlanner(o) THEN planManagers + 1 ELSE planManagers
         /\ usedOpts' =
              IF o \in {"PlanSingleWaypoint", "planned"}
              THEN Append(usedOpts, opts[mpI + 1]) ELSE usedOpts
         /\ IF o # "planned"
            THEN /\ mpRet' = MpFail(GoalError(o))
                 /\ mpPc' = "done"
                 /\ UNCHANGED <<steps, seedMap, mpI>>
            ELSE LET resultSteps == [j \in 1 .. n |-> [goal |-> mpI + 1, idx |-> j]]
                 IN  /\ steps' = steps \o resultSteps
                     /\ seedMap' = NextSeed(seedMap, resultSteps)
                     /\ mpI' = mpI + 1
                     /\ UNCHANGED <<mpRet, mpPc>>
    /\ UNCHANGED <<goals, motionConfigs, frameInFS, tracebackOK, worldStateNil, opts>>
    /\ UNCHANGED <<gsVars, smVars, ciVars>>

\* lines 219-221
MP_Return ==
    /\ mpPc = "loop"
    /\ mpI >= goals
    /\ mpRet' = [steps |-> steps, err |-> "nil"]
    /\ mpPc' = "done"
    /\ UNCHANGED <<goals, motionConfigs, frameInFS, tracebackOK, worldStateNil,
                   opts, mpI, steps, seedMap, usedOpts, usedSeeds, planManagers,
                   lastDoF, resultLens>>
    /\ UNCHANGED <<gsVars, smVars, ciVars>>

MPInit ==
    /\ mpPc = "start"
    /\ goals \in 0 .. MaxGoals
    /\ \E c \in 0 .. MaxConfigs : motionConfigs = [k \in 1 .. c |-> k]
    /\ frameInFS \in BOOLEAN
    /\ tracebackOK \in BOOLEAN
    /\ worldStateNil \in BOOLEAN
    /\ opts = << >>
    /\ mpI = 0
    /\ steps = << >>
    /\ seedMap = CallerSeed
    /\ mpRet = [steps |-> << >>, err |-> "pending"]
    /\ usedOpts = << >>
    /\ usedSeeds = << >>
    /\ planManagers = 0
    /\ lastDoF = -1
    /\ resultLens = << >>

MPIdle ==
    /\ mpPc = "idle"
    /\ goals = 0
    /\ motionConfigs = << >>
    /\ frameInFS = TRUE
    /\ tracebackOK = TRUE
    /\ worldStateNil = TRUE
    /\ opts = << >>
    /\ mpI = 0
    /\ steps = << >>
    /\ seedMap = CallerSeed
    /\ mpRet = [steps |-> << >>, err |-> "pending"]
    /\ usedOpts = << >>
    /\ usedSeeds = << >>
    /\ planManagers = 0
    /\ lastDoF = -1
    /\ resultLens = << >>

MPNext ==
    \/ MP_Start
    \/ MP_Goal
    \/ MP_Return

(***************************************************************************)
(* checkInputs (lines 248-261)                                             *)
(***************************************************************************)

\* mp.frame.Transform returned an error
TransformFailed == "transform failed"

\* lines 253-259: the ConstraintInput handed to CheckConstraints (the Frame
\* field is the planner's one frame)
ConstraintInput_SeedStart(position, inputs) ==
    [StartPos |-> position, EndPos |-> position, StartInput |-> 0, EndInput |-> inputs]

ConstraintInput(position, inputs) ==
    [StartPos |-> position, EndPos |-> position, StartInput |-> inputs, EndInput |-> inputs]

\* lines 249-252
CI_Transform ==
    /\ ciPc = "start"
    /\ ciPosition' = frameTransform[ciInputs]
    /\ IF frameTransform[ciInputs] = TransformFailed
       THEN /\ ciRet' = FALSE
            /\ ciPc' = "done"
       ELSE /\ ciRet' = ciRet
            /\ ciPc' = "check"
    /\ UNCHANGED <<frameTransform, ciInputs, ccCalls>>
    /\ UNCHANGED <<gsVars, smVars, mpVars>>

\* lines 253-260: the capability answers as it likes, its second and third
\* results are dropped
CI_CheckConstraints ==
    /\ ciPc = "check"
    /\ \E ok \in BOOLEAN :
         /\ ccCalls' = Append(ccCalls, [in |-> ConstraintInput(ciPosition, ciInputs),
                                        ok |-> ok])
         /\ ciRet' = ok
    /\ ciPc' = "done"
    /\ UNCHANGED <<frameTransform, ciInputs, ciPosition>>
    /\ UNCHANGED <<gsVars, smVars, mpVars>>

CIInit ==
    /\ ciPc = "start"
    /\ frameTransform \in [Inputs -> Poses \cup {TransformFailed}]
    /\ ciInputs \in Inputs
    /\ ciPosition = "unset"
    /\ ciRet = "pending"
    /\ ccCalls = << >>

CIIdle ==
    /\ ciPc = "idle"
    /\ frameTransform = [q \in Inputs |-> TransformFailed]
    /\ ciInputs = 0
    /\ ciPosition = "unset"
    /\ ciRet = "pending"
    /\ ccCalls = << >>

CINext ==
    \/ CI_Transform
    \/ CI_CheckConstraints

\* one getSolutions call
Init == GSInit /\ SMIdle /\ MPIdle /\ CIIdle

Next == GSNext

Spec == Init /\ [][Next]_vars

\* one getSolutions call whose goroutines keep being scheduled: the calling
\* goroutine takes its steps after the loop, the solver goroutine its send
\* and close, and Solve returns once ctxWithCancel is done (it need not
\* return before)
GSFairness ==
    /\ WF_vars(GS_Post)
    /\ WF_vars(GS_DeferCancel)
    /\ WF_vars(GS_DeferWait)
    /\ WF_vars(Sol_Abandon)
    /\ WF_vars(Sol_Return /\ ctxWithCancelDone)
    /\ WF_vars(Sol_Send)
    /\ WF_vars(Sol_Close)

\* the options of the fair runs: MaxSolutions = 1, with which the loop ends
\* on the first accepted candidate, on the completion signal when every
\* candidate failed a check, or on the cancellation
InitLive == Init /\ MaxSolutions = 1

SpecLive == InitLive /\ [][Next]_vars /\ GSFairness

\* one getSolutions call whose calling goroutine keeps being scheduled while
\* it is in the loop; nothing is asked of the solver
LoopFairness ==
    /\ WF_vars(GS_PollCtx)
    /\ WF_vars(GS_PollGen)
    /\ WF_vars(GS_PollErr)

SpecLoop == InitLive /\ [][Next]_vars /\ LoopFairness

\* one smoothPath call
InitSmooth == SMInit /\ GSIdle /\ MPIdle /\ CIIdle

SpecSmooth == InitSmooth /\ [][SMNext]_vars

\* one smoothPath call, the validity of every edge tracked
InitSmoothAudit == SMInitAudit /\ GSIdle /\ MPIdle /\ CIIdle

SpecSmoothAudit == InitSmoothAudit /\ [][SMNext]_vars

\* one smoothPath call of one iteration
InitSplice == SMInitSplice /\ GSIdle /\ MPIdle /\ CIIdle

SpecSplice == InitSplice /\ [][SMNext]_vars

\* one motionPlanInternal call
InitPlan == MPInit /\ GSIdle /\ SMIdle /\ CIIdle

SpecPlan == InitPlan /\ [][MPNext]_vars

\* one checkInputs call
InitCheck == CIInit /\ GSIdle /\ SMIdle /\ MPIdle

SpecCheck == InitCheck /\ [][CINext]_vars

(***************************************************************************)
(* Properties of getSolutions                                              *)
(***************************************************************************)
Returned == gsPc = "done"
InLoop == gsPc \in {"pollCtx", "pollGen", "pollErr"}
Canceled == [sols |-> << >>, err |-> CtxErr]

\* C1: whenever getSolutions has returned after launching the solver, the
\* Solve call has returned (the goroutine is past it) and no send on
\* solutionGen is pending, so nothing is offered after the return.
C1_SolverJoined ==
    (Returned /\ launches > 0) => (solver \in {"sent", "exited"} /\ offer = 0)

\* a return on the cancellation path, with a candidate still on offer when
\* the loop ended
C1_Witness ==
    Returned /\ launches > 0 /\ emitted > processed /\ gsRet = Canceled

\* C2 as stated: a cancellation of ctx at any moment between the launch of
\* the solver and the return makes the call return the cancellation error
\* and no candidates.
C2_AnyMomentCancel ==
    (Returned /\ ctxDone /\ cancelAt \notin {"start", "launch"}) => gsRet = Canceled

\* C2 amended: a cancellation that is in place when the loop polls ctx at
\* the start of an iteration (ctx canceled while the call stood at that
\* poll, or between the transform and the first poll) makes the call
\* return the cancellation error and no candidates, whatever was collected.
C2_CancelSeenAtPoll ==
    (Returned /\ cancelAt \in {"launch", "pollCtx"}) => gsRet = Canceled

\* the loop held an accepted candidate when the cancellation was polled
C2_Witness ==
    Returned /\ cancelAt = "pollCtx" /\ solutions # EmptyMap /\ gsRet = Canceled

\* C3: a successful result is non-empty and strictly ascending in cost
\* (hence without two entries of one cost).
C3_StrictlyAscending ==
    gsRet.err = NoErr =>
        /\ Len(gsRet.sols) >= 1
        /\ \A i \in 1 .. Len(gsRet.sols) - 1 : gsRet.sols[i].cost < gsRet.sols[i + 1].cost

\* a result of two entries whose lower cost was found later
C3_Witness ==
    /\ Returned /\ gsRet.err = NoErr /\ Len(gsRet.sols) >= 2
    /\ gsRet.sols[1].q > gsRet.sols[2].q

\* C4 as stated: with MinScore > 0, once a received candidate was scored
\* below MinScore, a successful result has exactly one entry.
C4_AnyLowScore ==
    (Returned /\ gsRet.err = NoErr /\ MinScore > 0 /\ lowSeen) => Len(gsRet.sols) = 1

\* C4 amended: with MinScore > 0, once a received candidate that passed
\* both constraint checks was scored below MinScore, the call succeeds
\* with exactly one entry, whose cost is below MinScore.
C4_LowScoreAccepted ==
    (Returned /\ lowAccepted) =>
        /\ gsRet.err = NoErr
        /\ Len(gsRet.sols) = 1
        /\ gsRet.sols[1].cost < MinScore

\* the low-scoring candidate came after another accepted one
C4_Witness ==
    Returned /\ lowAccepted /\ processed >= 2 /\ constraintFailCnt = 0

\* C5: N is MaxSolutions, or the default when MaxSolutions = 0; the loop
\* never runs an iteration while N entries are held, and a successful
\* result has at most N entries.
C5_MaxSolutions ==
    LET N == IF MaxSolutions = 0 THEN defaultSolutionsToSeed ELSE MaxSolutions
    IN  /\ gsPc \notin {"start"} => nSolutions = N
        /\ InLoop => Cardinality(DOMAIN solutions) < N
        /\ gsRet.err = NoErr => Len(gsRet.sols) <= N

\* N = 2 entries returned while a further candidate was on offer, unread
C5_Witness ==
    /\ Returned /\ MaxSolutions = 2 /\ gsRet.err = NoErr
    /\ Len(gsRet.sols) = 2 /\ emitted > processed

\* C6: when the loop has ended (not by cancellation) with an empty result
\* set, the error is 'no IK solution' exactly if no candidate was rejected,
\* and otherwise the summary carrying the histogram and the count; with a
\* non-empty result set neither error is returned.
C6_FailureReport ==
    gsPc \in {"deferCancel", "deferWait", "done"} /\ launches > 0 /\ gsRet # Canceled =>
        /\ (solutions = EmptyMap /\ constraintFailCnt = 0) => gsRet.err = errIKSolve
        /\ (solutions = EmptyMap /\ constraintFailCnt > 0) =>
              gsRet.err = [kind |-> "constraint", failures |-> failures,
                           cnt |-> constraintFailCnt]
        /\ solutions # EmptyMap => gsRet.err = NoErr

\* a summary with two constraint names in its histogram
C6_Witness ==
    /\ Returned /\ gsRet.err.kind = "constraint"
    /\ DOMAIN gsRet.err.failures = ConstraintNames /\ gsRet.err.cnt = MaxEmit

(***************************************************************************)
(* Properties of smoothPath                                                *)
(***************************************************************************)
SmReturned == smPc = "done"

\* C7: if every edge of the input path passes checkPath, every edge of the
\* returned path passes checkPath, the edges joining a kept node to an
\* inserted waypoint included.
C7_OutputValid ==
    (SmReturned /\ \A e \in Edges(smInput) : pathOK[e]) =>
        \A e \in Edges(smRet) : pathOK[e]

\* C8 as stated: the returned path never has more nodes than the input.
C8_NeverMoreNodes ==
    SmReturned => Len(smRet) <= Len(smInput)

\* C8 amended: every accepted shortcut adds at most one node, so the path
\* never has more than one node per accepted shortcut, hence at most
\* SmoothIter nodes, more than the input.
C8_GrowthBounded ==
    /\ smAccepted <= smI
    /\ smI <= SmoothIter
    /\ smPc \in {"loop", "done"} => Len(path) <= Len(smInput) + smAccepted
    /\ SmReturned => Len(smRet) <= Len(smInput) + SmoothIter

\* every iteration of the budget added a node
C8_Witness ==
    SmReturned /\ SmoothIter = MaxSmoothIter /\ Len(smRet) = Len(smInput) + SmoothIter

\* C9: with the options missing or a path of two or fewer nodes, the input
\* is returned as it is, and neither checkPath nor the random source is
\* used.
C9_NoOp ==
    (SmReturned /\ (optsNil \/ Len(smInput) <= 2)) =>
        /\ smRet = smInput
        /\ cpCalls = 0
        /\ randDraws = 0

\* options missing on a path the loop would otherwise have worked on
C9_Witness ==
    SmReturned /\ optsNil /\ Len(smInput) >= 3 /\ SmoothIter >= 1 /\ ~ctxDone

(***************************************************************************)
(* Properties of motionPlanInternal                                        *)
(***************************************************************************)
MpReturned == mpPc = "done"
DifferentLengths == "goals and motion configs had different lengths"

\* the config the claim gives goal k
ConfigOfGoal(k) ==
    IF Len(motionConfigs) = goals THEN motionConfigs[k]
    ELSE IF Len(motionConfigs) = 0 THEN EmptyConfig
    ELSE motionConfigs[1]

Distributable == Len(motionConfigs) \in {goals, 0, 1}

\* every single-waypoint solve made so far got the config of its goal
ConfigsAsClaimed ==
    Distributable => \A k \in 1 .. Len(usedOpts) : usedOpts[k] = ConfigOfGoal(k)

\* the call has failed on the config count, before any goal was looked at
FailedOnCount ==
    /\ mpRet = MpFail(DifferentLengths)
    /\ usedSeeds = << >> /\ usedOpts = << >> /\ planManagers = 0

\* C10 as stated: for G >= 1 goals, goal k is solved with config k (C = G),
\* the empty config (C = 0) or the single config (C = 1); for every other
\* C the call fails with the different-lengths error, no goal planned.
C10_AnyCall ==
    goals >= 1 =>
        /\ ConfigsAsClaimed
        /\ (MpReturned /\ ~Distributable) => FailedOnCount
        /\ ~Distributable => mpPc # "loop"

\* C10 amended: the same for a call whose frame is in the frame system and
\* whose traceback succeeds; the call for a missing frame fails on that
\* before the configs are counted.
C10_FramePresent ==
    (goals >= 1 /\ frameInFS /\ tracebackOK) =>
        /\ ConfigsAsClaimed
        /\ (MpReturned /\ ~Distributable) => FailedOnCount
        /\ ~Distributable => mpPc # "loop"
        /\ (MpReturned /\ Distributable) => mpRet.err # DifferentLengths

\* three goals all planned with the one config supplied
C10_Witness ==
    /\ MpReturned /\ goals = 3 /\ Len(motionConfigs) = 1
    /\ usedOpts = <<1, 1, 1>> /\ mpRet.err = "nil"

(***************************************************************************)
(* Properties of motionPlanInternal, the loop over the goals               *)
(***************************************************************************)

NoDoFErr == "solver frame has no degrees of freedom, cannot perform inverse kinematics"

\* the goals whose body ran to the end are the first mpI ones
GoalsPlanned == mpI

\* C11: as soon as a solver frame with zero degrees of freedom has been
\* built, the call has returned the 'no degrees of freedom' error with no
\* steps; the planners constructed and the single-waypoint solves started
\* are exactly those of the goals before it, so none for that goal, and the
\* call being over, none for a later goal
C11_ZeroDoFAborts ==
    lastDoF = 0 =>
        /\ mpPc = "done"
        /\ mpRet = [steps |-> << >>, err |-> NoDoFErr]
        /\ planManagers = GoalsPlanned
        /\ Len(usedOpts) = GoalsPlanned
        /\ Len(resultLens) = GoalsPlanned
        /\ GoalsPlanned < goals

\* the second goal has a zero-DoF solver frame, the first one was planned
\* with steps
C11_Witness ==
    /\ lastDoF = 0
    /\ mpPc = "done"
    /\ mpI = 1
    /\ goals = 3
    /\ Len(steps) = 2

\* the steps of goals 1 .. k, each goal's steps in the order returned
RECURSIVE StepsOfGoals(_, _)
StepsOfGoals(lens, k) ==
    IF k = 0 THEN << >>
    ELSE StepsOfGoals(lens, k - 1) \o [j \in 1 .. lens[k] |-> [goal |-> k, idx |-> j]]

\* C12: a returned call hands back either an error and no steps, or no
\* error and the steps of every goal concatenated in goal order; a failure
\* at goal k ends the call with goal k the last one attempted
C12_AllOrNothing ==
    mpPc = "done" =>
        \/ /\ mpRet.err # "nil"
           /\ mpRet.steps = << >>
           /\ Len(usedSeeds) <= GoalsPlanned + 1
           /\ Len(resultLens) = GoalsPlanned
           /\ planManagers <= GoalsPlanned + 1
        \/ /\ mpRet.err = "nil"
           /\ GoalsPlanned = goals
           /\ Len(resultLens) = goals
           /\ Len(usedSeeds) = goals
           /\ mpRet.steps = StepsOfGoals(resultLens, goals)

\* goal 2 of 3 fails in its single-waypoint solve after goal 1 gave two steps
C12_Witness ==
    /\ mpPc = "done"
    /\ goals = 3
    /\ mpI = 1
    /\ Len(steps) = 2
    /\ mpRet = [steps |-> << >>, err |-> "PlanSingleWaypoint"]

\* C13: goal 1 is planned from the caller's seed map, a later goal from the
\* map of the last step the previous goal returned, or from the previous
\* goal's own seed map when that goal returned no steps
C13_SeedThreaded ==
    \A k \in 1 .. Len(usedSeeds) :
        usedSeeds[k] =
            IF k = 1 THEN CallerSeed
            ELSE IF resultLens[k - 1] > 0
                 THEN [goal |-> k - 1, idx |-> resultLens[k - 1]]
                 ELSE usedSeeds[k - 1]

\* goal 1 returned two steps, goal 2 none, goal 3 has been started
C13_Witness ==
    /\ Len(usedSeeds) = 3
    /\ resultLens[1] = 2
    /\ resultLens[2] = 0
    /\ usedSeeds[3] = [goal |-> 1, idx |-> 2]

EmptyGoalsErr == "no destinations passed to PlanWaypoints"

\* C14: past the checks, an empty goal list has given the empty-goal error
\* and, with goals, a missing frame has given the frame-missing error,
\* whatever the motion configs are; neither has built a solver frame or a
\* planner, nor chosen the configs
C14_EarlyRejects ==
    mpPc # "start" =>
        /\ goals = 0 =>
              /\ mpPc = "done"
              /\ mpRet = [steps |-> << >>, err |-> EmptyGoalsErr]
        /\ (goals > 0 /\ ~frameInFS) =>
              /\ mpPc = "done"
              /\ mpRet = [steps |-> << >>, err |-> "frame missing"]
        /\ (goals = 0 \/ ~frameInFS) =>
              /\ usedSeeds = << >>
              /\ lastDoF = -1
              /\ planManagers = 0
              /\ opts = << >>
              /\ usedOpts = << >>

\* the frame is missing and the config count is mismatched as well
C14_Witness ==
    /\ mpPc = "done"
    /\ goals = 3
    /\ ~frameInFS
    /\ Len(motionConfigs) = 2
    /\ mpRet.err = "frame missing"

(***************************************************************************)
(* Properties of checkInputs                                               *)
(***************************************************************************)

CiReturned == ciPc = "done"

\* C15: a returned checkInputs call whose forward transform succeeded made
\* one CheckConstraints call, on the input whose start and end pose are the
\* transform of the configuration and whose start and end configuration are
\* the configuration, and returned the verdict of that call; one whose
\* transform failed returned false and made no CheckConstraints call
C15_DegenerateCheck ==
    CiReturned =>
        IF frameTransform[ciInputs] # TransformFailed
        THEN /\ Len(ccCalls) = 1
             /\ ccCalls[1].in = [StartPos |-> frameTransform[ciInputs],
                                 EndPos |-> frameTransform[ciInputs],
                                 StartInput |-> ciInputs,
                                 EndInput |-> ciInputs]
             /\ ciRet = ccCalls[1].ok
        ELSE /\ ciRet = FALSE
             /\ ccCalls = << >>

\* the transform of configuration 2 succeeded and the capability passed it
C15_Witness ==
    /\ CiReturned
    /\ ciInputs = 2
    /\ frameTransform[2] = "poseB"
    /\ Len(ccCalls) = 1
    /\ ciRet = TRUE

(***************************************************************************)
(* Properties of getSolutions, the candidates held and the solver task     *)
(***************************************************************************)

\* the costs some accepted candidate had, and those two or more had
AcceptedCosts == {c \in Costs : accepted[c].n > 0}
RepeatedCosts == {c \in Costs : accepted[c].n >= 2}

\* the entries of the returned list that carry cost c
EntriesOf(c) == {k \in 1 .. Len(gsRet.sols) : gsRet.sols[k].cost = c}

\* C16 as stated: a call that returns candidates holds, for every cost two
\* accepted candidates shared, one entry, the later candidate's
C16_RepeatedCostReturned ==
    (Returned /\ gsRet.err = NoErr) =>
        \A c \in RepeatedCosts :
            /\ Cardinality(EntriesOf(c)) = 1
            /\ \A k \in EntriesOf(c) : gsRet.sols[k].q = accepted[c].last

\* C16: unless a candidate took the MinScore exit, the map holds one entry
\* per accepted cost, the last candidate accepted with it, so that the count
\* compared against MaxSolutions is the number of distinct accepted costs;
\* a call that then returns candidates returns that entry for a repeated cost
C16_LastWriteWins ==
    ~lowAccepted =>
        /\ DOMAIN solutions = AcceptedCosts
        /\ \A c \in AcceptedCosts : solutions[c] = accepted[c].last
        /\ (Returned /\ gsRet.err = NoErr) =>
              \A c \in RepeatedCosts :
                  /\ Cardinality(EntriesOf(c)) = 1
                  /\ \A k \in EntriesOf(c) : gsRet.sols[k].q = accepted[c].last

\* candidates 1 and 3 were accepted with the same cost, and the call
\* returned the third
C16_Witness ==
    /\ Returned
    /\ gsRet.err = NoErr
    /\ ~lowAccepted
    /\ \E c \in Costs :
         /\ accepted[c] = [n |-> 2, last |-> 3]
         /\ \E k \in EntriesOf(c) : gsRet.sols[k].q = 3
    /\ Len(gsRet.sols) = 2

\* the draining loop has ended, the call has not returned yet
LoopEnded == gsPc \in {"post", "deferCancel", "deferWait"}

\* C17: once the loop has ended, the call returns, whatever the solver was
\* doing when it ended (Solve being one that returns once ctxWithCancel is
\* done)
C17_EventuallyReturns == LoopEnded ~> Returned

\* the call returned although the solver had a candidate on offer that
\* nobody took and the caller never canceled: Solve gave the send up on the
\* deferred cancel()
C17_Witness ==
    /\ Returned
    /\ launches = 1
    /\ ~ctxDone
    /\ emitted > processed
    /\ solveVal = "err"
    /\ solver = "exited"

\* the loop took the value of ikErr (line 415), the deferred receive has not
\* run yet
SignalConsumedByLoop == LoopEnded /\ ikErrSends = 1 /\ ikErrBuf = << >>

\* C18: the solver task sends on ikErr once, after Solve has returned, into
\* a buffer it finds free, and closes the channel after the send; once Solve
\* has returned the task runs to its end, whatever the loop does; the
\* deferred receive completes when the value is still in the buffer and,
\* when the loop took it, on the close
C18_SignalOnce ==
    /\ [](ikErrSends <= 1 /\ Len(ikErrBuf) <= 1)
    /\ [](solver \in {"sent", "exited"} <=> ikErrSends = 1)
    /\ [](solver = "returned" => (ikErrBuf = << >> /\ ~ikErrClosed))
    /\ [](ikErrClosed <=> solver = "exited")
    /\ (solver = "returned" ~> solver = "exited")
    /\ ((gsPc = "deferWait" /\ ikErrBuf # << >>) ~> Returned)
    /\ ((gsPc = "deferWait" /\ SignalConsumedByLoop) ~> Returned)
    /\ [][(gsPc = "deferWait" /\ gsPc' = "done" /\ ikErrBuf = << >>) => ikErrClosed]_vars

\* the call returned after its loop had ended on the completion signal (no
\* candidate, no failed check, no cancellation): the deferred receive found
\* the channel closed
C18_Witness ==
    /\ Returned
    /\ launches = 1
    /\ ~ctxDone
    /\ gsRet = [sols |-> << >>, err |-> errIKSolve]
    /\ ikErrSends = 1
    /\ ikErrClosed

\* the candidates that passed both checks, over the costs 1 .. c
RECURSIVE AcceptedUpTo(_)
AcceptedUpTo(c) == IF c = 0 THEN 0 ELSE accepted[c].n + AcceptedUpTo(c - 1)

\* the candidates the loop has validated: accepted, or counted as failing
Validated == AcceptedUpTo(MaxCost) + constraintFailCnt

\* C19: when the loop has ended on the completion signal, no candidate is
\* pending on the stream and every candidate whose send Solve started has
\* been received and validated, but for one that Solve itself gave up when
\* the caller had canceled; candidates are received in the order offered;
\* and the signal is polled only right after a poll of the stream that
\* found no candidate
C19_DrainedInOrder ==
    /\ [](SignalConsumedByLoop =>
              /\ solver \in {"sent", "exited"}
              /\ offer = 0
              /\ processed + withdrawn = emitted
              /\ (withdrawn > 0 => ctxDone))
    /\ [](inOrder /\ Validated = processed)
    /\ [][(gsPc # "pollErr" /\ gsPc' = "pollErr") =>
              (gsPc = "pollGen" /\ solver # "offering" /\ processed' = processed)]_vars

\* the solver emitted three candidates, the loop validated all three and
\* then ended on the completion signal
C19_Witness ==
    /\ gsPc = "post"
    /\ SignalConsumedByLoop
    /\ emitted = 3
    /\ processed = 3
    /\ withdrawn = 0

\* C20: wherever the loop stands its next poll can be taken at once; a
\* poll of the stream is entered only from a poll of ctx that found it not
\* canceled, and a processed candidate leads to the poll of ctx or out of
\* the loop; so after ctx is canceled at most one more candidate is
\* received, and the loop ends, whatever the solver does
C20_PromptCancel ==
    /\ [](gsPc = "pollCtx" => ENABLED GS_PollCtx)
    /\ [](gsPc = "pollGen" => ENABLED GS_PollGen)
    /\ [](gsPc = "pollErr" => ENABLED GS_PollErr)
    /\ [][(gsPc # "pollGen" /\ gsPc' = "pollGen") => (gsPc = "pollCtx" /\ ~ctxDone)]_vars
    /\ [][processed' # processed => gsPc' \in {"pollCtx", "post"}]_vars
    /\ [](processedAfterCancel <= 1)
    /\ ((ctxDone /\ InLoop) ~> ~InLoop)

\* ctx was canceled between the poll of ctx and the poll of the stream: one
\* more candidate was validated, then the call returned the cancellation
C20_Witness ==
    /\ Returned
    /\ gsRet = Canceled
    /\ cancelAt = "pollGen"
    /\ processedAfterCancel = 1

(***************************************************************************)
(* Properties of getSolutions, the acceptance of a candidate               *)
(***************************************************************************)

\* C21: with MinScore > 0, once a candidate that passed both checks scored
\* below MinScore, the loop has ended, the map holds that candidate alone
\* under its score, whatever had been collected and whatever MaxSolutions
\* is, the value computed after the loop is that one candidate, and no
\* further candidate is received
C21_MinScoreExit ==
    /\ [](lowAccepted =>
              /\ MinScore > 0
              /\ gsPc \in {"post", "deferCancel", "deferWait", "done"}
              /\ \E c \in Costs :
                   /\ c < MinScore
                   /\ accepted[c].last = processed
                   /\ solutions = MapPut(EmptyMap, c, processed)
                   /\ gsPc # "post" =>
                        gsRet = [sols |-> <<newCostNode(processed, c)>>, err |-> NoErr])
    /\ [][lowAccepted => processed' = processed]_vars

\* one candidate had been collected when the second scored below MinScore;
\* the solver then offered a third, which nobody took
C21_Witness ==
    /\ Returned
    /\ lowAccepted
    /\ processed = 2
    /\ AcceptedUpTo(MaxCost) = 2
    /\ emitted = 3
    /\ Len(gsRet.sols) = 1

\* the last candidate received passed the checks made for it
LastPassed == \A k \in 1 .. Len(lastChecks) : lastChecks[k].ok

\* C22: every entry of the map and of the result is a candidate that passed
\* both checks; for each candidate received the first check is the one from
\* the seed to the candidate, the second one, made exactly when the first
\* passed, has the candidate on both sides; a candidate is accepted exactly
\* when both passed, and one that failed a check leaves the map alone and
\* does not end the loop
C22_BothChecks ==
    /\ [](\A c \in DOMAIN solutions :
              accepted[c].n > 0 /\ accepted[c].last = solutions[c])
    /\ [](\A k \in 1 .. Len(gsRet.sols) :
              /\ accepted[gsRet.sols[k].cost].n > 0
              /\ accepted[gsRet.sols[k].cost].last = gsRet.sols[k].q)
    /\ [][processed' # processed =>
            LET step == processed'
                seedToStep == [StartPos |-> "seedPos", EndPos |-> "goalPos",
                               StartInput |-> "seed", EndInput |-> step]
                stepToStep == [StartPos |-> "goalPos", EndPos |-> "goalPos",
                               StartInput |-> step, EndInput |-> step]
            IN  /\ Len(lastChecks') \in {1, 2}
                /\ lastChecks'[1].in = seedToStep
                /\ Len(lastChecks') = 2 <=> lastChecks'[1].ok
                /\ Len(lastChecks') = 2 => lastChecks'[2].in = stepToStep
                /\ accepted' # accepted <=> (Len(lastChecks') = 2 /\ lastChecks'[2].ok)
                /\ accepted' = accepted =>
                     /\ solutions' = solutions
                     /\ gsPc' = "pollCtx"
                     /\ constraintFailCnt' = constraintFailCnt + 1]_vars

\* the second candidate passed the first check and failed the second, with
\* a score below MinScore; the first candidate is the result
C22_Witness ==
    /\ Returned
    /\ MinScore = 2
    /\ processed = 2
    /\ Len(lastChecks) = 2
    /\ ~lastChecks[2].ok
    /\ lowSeen
    /\ ~lowAccepted
    /\ Len(gsRet.sols) = 1
    /\ gsRet.sols[1].q = 1

(***************************************************************************)
(* Properties of smoothPath, the splice                                    *)
(***************************************************************************)

\* the points a quarter, a half and three quarters of the way from a to b
WaypointsOn(a, b) == {a + ((b - a) * w) \div 4 : w \in 1 .. 3}

\* C23: an iteration whose shortcut on the edges i < j of a path of L nodes
\* was accepted leaves the nodes 0 .. i, then a waypoint on edge i and one
\* on edge j, then the nodes j+1 .. L-1: L + 2 - (j - i) nodes, the j - i
\* nodes i+1 .. j being gone.  On 6 nodes with i = 1, j = 4: five nodes,
\* the nodes 2, 3, 4 gone, two waypoints in their place
C23_SpliceShape ==
    [][(smI' = smI + 1 /\ lastDraw'.ok) =>
          LET i == lastDraw'.firstEdge
              j == lastDraw'.secondEdge
              L == Len(path)
          IN  /\ i < j
              /\ Len(path') = L + 2 - (j - i)
              /\ Len(origin') = Len(path')
              /\ \A k \in 0 .. i :
                   path'[k + 1] = path[k + 1] /\ origin'[k + 1] = origin[k + 1]
              /\ path'[i + 2] \in WaypointsOn(path[i + 1], path[i + 2])
              /\ path'[i + 3] \in WaypointsOn(path[j + 1], path[j + 2])
              /\ origin'[i + 2] = 0 /\ origin'[i + 3] = 0
              /\ \A k \in j + 1 .. L - 1 :
                   /\ path'[k + 3 - (j - i)] = path[k + 1]
                   /\ origin'[k + 3 - (j - i)] = origin[k + 1]
              /\ (L = 6 /\ i = 1 /\ j = 4) =>
                   /\ Len(path') = 5
                   /\ origin' = <<1, 2, 0, 0, 6>>]_vars

\* the shortcut between edges 1 and 4 of a path of 6 nodes was accepted
C23_Witness ==
    /\ SmReturned
    /\ Len(smInput) = 6
    /\ lastDraw = [firstEdge |-> 1, secondEdge |-> 4, ok |-> TRUE]
    /\ Len(smRet) = 5
    /\ origin = <<1, 2, 0, 0, 6>>

\* C24: while smoothPath is in its loop the path has at least 3 nodes; in
\* every iteration that draws, on a path of len nodes, both arguments of
\* Intn are at least 1, the first edge index i is in 0 .. len-3, the second
\* j in i+1 .. len-2, and the nodes i, i+1, j, j+1 are nodes of the path
C24_IndicesInRange ==
    /\ [](smPc = "loop" => Len(path) >= 3)
    /\ [](smPc = "loop" => Len(origin) = Len(path))
    /\ [][smI' = smI + 1 =>
            LET i == lastDraw'.firstEdge
                j == lastDraw'.secondEdge
                len == Len(path)
            IN  /\ len - 2 >= 1
                /\ (len - 2) - i >= 1
                /\ 0 <= i /\ i <= len - 3
                /\ i < j /\ j <= len - 2
                /\ {i + 1, i + 2, j + 1, j + 2} \subseteq DOMAIN path]_vars

\* a path of 3 nodes grew to 4, then to 5: the second draw was made on the
\* spliced path
C24_Witness ==
    /\ SmReturned
    /\ smI = 2
    /\ smAccepted = 2
    /\ Len(smInput) = 3
    /\ Len(smRet) = 5
    /\ lastDraw.secondEdge = 2

\* C25: an iteration that starts with ctx canceled ends the call with the
\* path as it stands, without a draw and without a checkPath call; with ctx
\* canceled no iteration is counted, so a call whose ctx is canceled on
\* entry (no iteration made yet) never calls checkPath and returns its input
C25_CancelReturnsPath ==
    /\ [][(smPc = "loop" /\ smI < SmoothIter /\ ctxDone /\ smPc' # smPc) =>
            /\ smPc' = "done"
            /\ smRet' = path
            /\ path' = path
            /\ cpCalls' = cpCalls
            /\ randDraws' = randDraws
            /\ smI' = smI]_vars
    /\ []((smPc = "loop" /\ smI < SmoothIter /\ ctxDone) => ENABLED SM_Iterate)
    /\ [][ctxDone => smI' = smI]_vars
    /\ []((ctxDone /\ smI = 0) =>
            /\ cpCalls = 0
            /\ randDraws = 0
            /\ path = smInput
            /\ SmReturned => smRet = smInput)

\* ctx was canceled after the first of two iterations, whose shortcut had
\* been accepted: the spliced path is returned
C25_Witness ==
    /\ SmReturned
    /\ ctxDone
    /\ SmoothIter = 2
    /\ smI = 1
    /\ smAccepted = 1
    /\ cpCalls = 1
    /\ smRet # smInput
    /\ smRet = path

\* the positions of path that hold a node of the input path
Originals == {k \in DOMAIN origin : origin[k] > 0}

\* C26: from the entry on, the path starts with the first node of the
\* input and ends with its last node, the nodes of the input still in it
\* stand in the order they had in the input, and the path returned is that
\* path
C26_EndpointsAndOrder ==
    /\ Len(origin) = Len(path)
    /\ \A k \in Originals : path[k] = smInput[origin[k]]
    /\ \A a, b \in Originals : a < b => origin[a] < origin[b]
    /\ Len(smInput) >= 1 =>
         /\ origin[1] = 1
         /\ origin[Len(origin)] = Len(smInput)
    /\ SmReturned =>
         /\ smRet = path
         /\ Len(smInput) >= 1 =>
              /\ smRet[1] = smInput[1]
              /\ smRet[Len(smRet)] = smInput[Len(smInput)]

\* two shortcuts were accepted on a path of 5 nodes and an inner node of
\* the input is still there
C26_Witness ==
    /\ SmReturned
    /\ Len(smInput) = 5
    /\ smAccepted = 2
    /\ \E k \in Originals : origin[k] \notin {1, 5}
    /\ \E k \in DOMAIN origin : origin[k] = 0

(***************************************************************************)
(* Properties of getSolutions, the solver task and its value               *)
(***************************************************************************)

\* C27: a call launches at most one solver task; past the transform of the
\* seed it has launched one, or is about to, when the transform succeeded,
\* and when the transform failed it has returned the transform error in
\* that very step, with no task, no derived context to cancel and no value
\* ever sent on ikErr
C27_OneSolverTask ==
    /\ [](launches <= 1)
    /\ []((seedTransform = "ok" /\ gsPc # "launch") => launches = 1)
    /\ []((seedTransform = "ok" /\ gsPc = "launch") => launches = 0)
    /\ [](seedTransform = "failed" =>
              /\ Returned
              /\ gsRet = [sols |-> << >>, err |-> TransformErr]
              /\ launches = 0
              /\ solver = "idle"
              /\ ~cancelCalled
              /\ ikErrSends = 0
              /\ ~ikErrClosed)
    /\ [](seedTransform = "unset" <=> gsPc = "start")
    /\ [][launches' # launches => (gsPc = "launch" /\ solver = "idle" /\ solver' = "running")]_vars

\* the transform of the seed failed
C27_Witness ==
    /\ Returned
    /\ seedTransform = "failed"
    /\ gsRet.err = TransformErr
    /\ launches = 0

\* C28 as stated: a call that launched its solver succeeds when a candidate
\* was accepted, and reports errIKSolve or the constraint summary when
\* none was
C28_OutcomeByCandidates ==
    (Returned /\ launches = 1) =>
        IF AcceptedUpTo(MaxCost) > 0
        THEN gsRet.err = NoErr
        ELSE gsRet.err \in {errIKSolve, genIKConstraintErr(failures, constraintFailCnt)}

\* C28: a call that launched its solver and does not return the caller's
\* cancellation succeeds when a candidate was accepted and reports
\* errIKSolve, or the constraint summary when a check failed, when none
\* was, whatever value Solve returned; the cancellation is returned only
\* when the caller canceled
C28_SolverValueIgnored ==
    (Returned /\ launches = 1) =>
        /\ solveVal \in {"nil", "err"}
        /\ gsRet = Canceled => ctxDone
        /\ gsRet # Canceled =>
             IF AcceptedUpTo(MaxCost) > 0
             THEN gsRet.err = NoErr /\ Len(gsRet.sols) >= 1
             ELSE /\ gsRet.sols = << >>
                  /\ gsRet.err = IF constraintFailCnt = 0 THEN errIKSolve
                                 ELSE genIKConstraintErr(failures, constraintFailCnt)

\* Solve returned an error of its own accord, the caller never canceled,
\* and the call succeeded with the candidate accepted before
C28_Witness ==
    /\ Returned
    /\ solveVal = "err"
    /\ withdrawn = 0
    /\ ~ctxDone
    /\ ikErrSends = 1
    /\ gsRet.err = NoErr
    /\ Len(gsRet.sols) = 1
    /\ nSolutions > 1

\* the sum of the counts of a histogram
RECURSIVE SumOver(_, _)
SumOver(m, names) ==
    IF names = {} THEN 0
    ELSE LET n == CHOOSE x \in names : TRUE
         IN  m[n] + SumOver(m, names \ {n})

HistogramTotal == SumOver(failures, DOMAIN failures)

\* the name reported by the check that rejected the last candidate
RejectedBy == lastChecks[Len(lastChecks)].failName

\* C29: the failure count is the sum of the histogram; a received
\* candidate is either accepted, the histogram and the count staying as
\* they are, or it adds one to the count and one to the histogram entry of
\* the name its failing check reported, the map staying as it is; and the
\* map, the histogram and the count change in no step but the loop's
\* handling of a candidate
C29_FailureAccounting ==
    /\ [](constraintFailCnt = HistogramTotal)
    /\ [](\A n \in DOMAIN failures : failures[n] >= 1)
    /\ [][processed' # processed =>
            \/ /\ accepted' # accepted
               /\ failures' = failures
               /\ constraintFailCnt' = constraintFailCnt
               /\ LastPassed'
               /\ \E c \in DOMAIN solutions' : solutions'[c] = processed'
            \/ /\ accepted' = accepted
               /\ solutions' = solutions
               /\ constraintFailCnt' = constraintFailCnt + 1
               /\ ~LastPassed'
               /\ DOMAIN failures' = DOMAIN failures \cup {RejectedBy'}
               /\ \A n \in DOMAIN failures' :
                    failures'[n] =
                        (IF n \in DOMAIN failures THEN failures[n] ELSE 0)
                        + (IF n = RejectedBy' THEN 1 ELSE 0)]_vars
    /\ [][<<solutions, failures, constraintFailCnt>>' # <<solutions, failures, constraintFailCnt>>
            => (gsPc = "pollGen" /\ processed' = processed + 1)]_vars

\* in the loop, after three rejected candidates, two of them under one name
C29_Witness ==
    /\ InLoop
    /\ processed = 3
    /\ constraintFailCnt = 3
    /\ DOMAIN failures = ConstraintNames
    /\ failures["collision"] = 2
    /\ Len(lastChecks) = 2

====
